---- MODULE Spec2Model ----
(***************************************************************************)
(* Dual UART sniffer: the dedicated-receiver sketch (src/mega.ino, two     *)
(* hardware UARTs) and the shared-receiver sketch (src/unnamed/part_000,   *)
(* two SoftwareSerial ports of which one listens at a time).               *)
(*                                                                         *)
(* One loop() iteration is a walk of pc through                            *)
(*   idle -> poll -> (settle -> poll)* -> drain -> flushM -> flushL        *)
(*        -> [switch] -> idle                                              *)
(* and millis() is the variable now.                                       *)
(***************************************************************************)
EXTENDS Integers, Sequences, FiniteSets, TLC

VARIABLES
  variant,       \* "mega" (src/mega.ino) or "esp" (src/unnamed/part_000)
  pc,            \* position inside loop()
  now,           \* millis(), a 32-bit counter
  sniffBaud,     \* static uint32_t sniffBaud
  debugBytes,    \* bool debugBytes
  listening,     \* the receivers that currently receive
  lastSwitchMs,  \* uint32_t lastSwitchMs (shared-receiver sketch)
  ch,            \* ChanState chM, chL
  linesDone,     \* command lines handled by the running pollPCCommands()
  heard,         \* history: bytes each receiver took since its last frame
  heardAt,       \* history: millis() when each receiver last handed over a byte
  nSwitch,       \* history: calls of switchListener()
  scan,          \* input and result of a stand-alone findPacket() call
  ev             \* history: the last step, its inputs and what it printed

vars == <<variant, pc, now, sniffBaud, debugBytes, listening, lastSwitchMs,
          ch, linesDone, heard, heardAt, nSwitch, scan, ev>>

-----------------------------------------------------------------------------
(* Program constants *)

FRAME_GAP_MS == 25
SWITCH_TIMEOUT_MS == 50
BUFLEN == 128
START_MOTOR == 67
LEN_MOTOR == 9
START_LCD == 89
LEN_LCD == 7
SettleDelayMs == 20
SetupDelayMs == 50
InitSniffBaud == 9600

\* uint32_t arithmetic.  TLC integers are 32-bit signed, so the
\* unsigned words of the sketches are kept modulo 2^30 instead of 2^32: the
\* subtraction still wraps, and a negative long still casts to a large value.
UWord == 2 ^ 30
\* the difference taken without the wrap of the unsigned word
Sub32_plain(a, b) == a - b
Sub32(a, b) == (a - b + UWord) % UWord
Add32(a, b) == (a + b) % UWord
ToU32(x) == ((x % UWord) + UWord) % UWord

-----------------------------------------------------------------------------
(* Bounds of the model *)

MaxElapsed == 30     \* milliseconds explored (after the first time slice, if any)
MaxFrame == 2        \* bytes a receiver takes between two frames (Spec)
MaxBurst == 2        \* bytes one drain finds available (Spec)
MaxLines == 1        \* command lines one pollPCCommands() finds available
MaxExcess == 2       \* bytes taken beyond BUFLEN (SpecFill)
TickSteps == {0, 5, 25} \* milliseconds from one loop() pass to the next

Chan == {"M", "L"}
\* what each wire carries: the two wires carry different values, so a byte
\* that turns up in the other channel's buffer is seen
WireBytes(c) == IF c = "M" THEN {17, 34} ELSE {51}

RECURSIVE SeqsUpTo(_, _)
SeqsUpTo(S, n) ==
  IF n = 0 THEN {<<>>}
  ELSE LET prev == SeqsUpTo(S, n - 1)
       IN prev \cup {Append(s, x) : s \in {p \in prev : Len(p) = n - 1}, x \in S}

Bursts(c) == SeqsUpTo(WireBytes(c), MaxBurst)

-----------------------------------------------------------------------------
(* Arduino String, as a sequence of one-character strings *)

LowerChars == <<"a","b","c","d","e","f","g","h","i","j","k","l","m",
                "n","o","p","q","r","s","t","u","v","w","x","y","z">>
UpperChars == <<"A","B","C","D","E","F","G","H","I","J","K","L","M",
                "N","O","P","Q","R","S","T","U","V","W","X","Y","Z">>
DigitChars == <<"0","1","2","3","4","5","6","7","8","9">>

IsSpace(c) == c \in {" ", "\t"}
IsDigit(c) == \E i \in 1..10 : DigitChars[i] = c
DigitVal(c) == (CHOOSE i \in 1..10 : DigitChars[i] = c) - 1

toUpperChar(c) ==
  IF \E i \in 1..26 : LowerChars[i] = c
  THEN UpperChars[CHOOSE i \in 1..26 : LowerChars[i] = c] ELSE c
toLowerChar(c) ==
  IF \E i \in 1..26 : UpperChars[i] = c
  THEN LowerChars[CHOOSE i \in 1..26 : UpperChars[i] = c] ELSE c
toUpperCase(s) == [i \in 1..Len(s) |-> toUpperChar(s[i])]
toLowerCase(s) == [i \in 1..Len(s) |-> toLowerChar(s[i])]

RECURSIVE trimLeft(_)
trimLeft(s) == IF s # <<>> /\ IsSpace(Head(s)) THEN trimLeft(Tail(s)) ELSE s
RECURSIVE trimRight(_)
trimRight(s) ==
  IF s # <<>> /\ IsSpace(s[Len(s)]) THEN trimRight(SubSeq(s, 1, Len(s) - 1)) ELSE s
trim(s) == trimRight(trimLeft(s))

startsWith(s, p) == Len(s) >= Len(p) /\ SubSeq(s, 1, Len(p)) = p
substring(s, from) == SubSeq(s, from + 1, Len(s))

\* String::toInt() is atol(): blanks, an optional sign, then the leading digits;
\* 0 when there is none.  The lines of CmdLines stay far inside a long.
RECURSIVE atolDigits(_, _)
atolDigits(s, acc) ==
  IF s = <<>> \/ ~IsDigit(Head(s)) THEN acc
  ELSE atolDigits(Tail(s), acc * 10 + DigitVal(Head(s)))
toInt(s) ==
  LET t == trimLeft(s)
  IN IF t = <<>> THEN 0
     ELSE IF Head(t) = "-" THEN 0 - atolDigits(Tail(t), 0)
     ELSE IF Head(t) = "+" THEN atolDigits(Tail(t), 0)
     ELSE atolDigits(t, 0)

-----------------------------------------------------------------------------
(* ChanState.  buf holds the cells below pos: the sketches never read a    *)
(* cell at or above pos, so what bufClear leaves there is not kept.        *)

ChanInit == [buf |-> <<>>, pos |-> 0, overflow |-> FALSE, lastByteMs |-> 0]

\* bufClear that forgets ch.overflow = false
bufClear_keepOverflow(c) == [c EXCEPT !.buf = <<>>, !.pos = 0]

\* bufClear that forgets ch.pos = 0
bufClear_keepPos(c) == [c EXCEPT !.overflow = FALSE]

bufClear(c) == [c EXCEPT !.buf = <<>>, !.pos = 0, !.overflow = FALSE]

\* bufAdd that forgets ch.lastByteMs = millis()
bufAdd_noStamp(c, b, t) ==
  IF c.pos < BUFLEN
  THEN [c EXCEPT !.buf = Append(@, b), !.pos = @ + 1]
  ELSE [c EXCEPT !.overflow = TRUE]

\* bufAdd that tests pos <= BUFLEN
bufAdd_offByOne(c, b, t) ==
  IF c.pos <= BUFLEN
  THEN [c EXCEPT !.buf = Append(@, b), !.pos = @ + 1, !.lastByteMs = t]
  ELSE [c EXCEPT !.overflow = TRUE, !.lastByteMs = t]

\* bufAdd that stamps lastByteMs only when it stores the byte
bufAdd_stampStored(c, b, t) ==
  IF c.pos < BUFLEN
  THEN [c EXCEPT !.buf = Append(@, b), !.pos = @ + 1, !.lastByteMs = t]
  ELSE [c EXCEPT !.overflow = TRUE]

bufAdd(c, b, t) ==
  IF c.pos < BUFLEN
  THEN [c EXCEPT !.buf = Append(@, b), !.pos = @ + 1, !.lastByteMs = t]
  ELSE [c EXCEPT !.overflow = TRUE, !.lastByteMs = t]

\* while (port.available()) bufAdd(ch, port.read()): bufAdd for every byte, in
\* order.  The bytes are halved, and the state after the first half is bound
\* as a value, only to keep the evaluation of a long burst shallow.
RECURSIVE drainInto(_, _, _)
drainInto(c, bytes, t) ==
  IF bytes = <<>> THEN c
  ELSE IF Len(bytes) = 1 THEN bufAdd(c, bytes[1], t)
  ELSE LET h == Len(bytes) \div 2
       IN CHOOSE done \in { drainInto(half, SubSeq(bytes, h + 1, Len(bytes)), t) :
                               half \in {drainInto(c, SubSeq(bytes, 1, h), t)} } : TRUE

-----------------------------------------------------------------------------
(* Known-packet scanner *)

chk8_add(bval, cval) == (bval + cval) % 256

\* uint8_t chk = 0; for (ii = 0; ii < len - 1; ii++) chk = chk8_add(buf[i + ii], chk)
RECURSIVE chkLoop(_, _, _, _, _)
chkLoop(c, i, ii, len, chk) ==
  IF ii < len - 1 THEN chkLoop(c, i, ii + 1, len, chk8_add(c.buf[i + ii + 1], chk))
  ELSE chk

\* the test of one offset: start byte, then checksum against the last byte.
\* Cell i of the C array is buf[i + 1].
packetAt(c, start, len, i) ==
  c.buf[i + 1] = start /\ chkLoop(c, i, 0, len, 0) = c.buf[i + len]

\* findPacket whose loop runs while i + len < ch.pos
findPacket_short(c, start, len) ==
  IF len < 2 \/ c.pos < len THEN -1
  ELSE LET offs == {i \in 0..(c.pos - len - 1) : packetAt(c, start, len, i)}
       IN IF offs = {} THEN -1 ELSE CHOOSE i \in offs : \A j \in offs : i <= j

\* findPacket that keeps scanning and returns the last match
findPacket_last(c, start, len) ==
  IF len < 2 \/ c.pos < len THEN -1
  ELSE LET offs == {i \in 0..(c.pos - len) : packetAt(c, start, len, i)}
       IN IF offs = {} THEN -1 ELSE CHOOSE i \in offs : \A j \in offs : i >= j

\* for (i = 0; i + len <= ch.pos; i++) return the first i that passes the
\* test; -1 when the loop runs out
findPacket(c, start, len) ==
  IF len < 2 \/ c.pos < len THEN -1
  ELSE IF \E i \in 0..(c.pos - len) : packetAt(c, start, len, i)
  THEN CHOOSE i \in 0..(c.pos - len) :
         /\ packetAt(c, start, len, i)
         /\ \A j \in 0..(i - 1) : ~packetAt(c, start, len, j)
  ELSE -1

-----------------------------------------------------------------------------
(* What the sketches print, one record per printed event *)

FrameEv(tag, c) ==
  [type |-> "frame", tag |-> tag, n |-> c.pos, overflow |-> c.overflow, bytes |-> c.buf]
KnownEv(name, c, p, len) ==
  [type |-> "known", name |-> name, at |-> p, bytes |-> SubSeq(c.buf, p + 1, p + len)]
ByteEv(tag, b) == [type |-> "byte", tag |-> tag, b |-> b]
ReplyEv(kind, arg) == [type |-> kind, arg |-> arg]

printKnownPacketsIfAny(tag, c) ==
  LET pm == findPacket(c, START_MOTOR, LEN_MOTOR)
      pl == findPacket(c, START_LCD, LEN_LCD)
  IN (IF tag = "M" /\ pm >= 0 THEN <<KnownEv("Motor", c, pm, LEN_MOTOR)>> ELSE <<>>)
     \o (IF tag = "L" /\ pl >= 0 THEN <<KnownEv("LCD", c, pl, LEN_LCD)>> ELSE <<>>)

\* the record of a step: what ran, the command line and wire bytes it was
\* given, what it printed, and the receivers that were receiving before it
Step(op, line, inM, inL, out) ==
  [op |-> op, line |-> line, inM |-> inM, inL |-> inL, out |-> out, was |-> listening]

Frames(out, tag) == {i \in 1..Len(out) : out[i].type = "frame" /\ out[i].tag = tag}

-----------------------------------------------------------------------------
(* Receivers.  Serial2/Serial3 receive independently.  SoftwareSerial has  *)
(* one active port: listen() makes its port the only listener, begin()     *)
(* ends in listen(), end() stops its port.                                 *)

isListening(ls, p) == p \in ls
hwBegin(ls, p) == ls \cup {p}
hwEnd(ls, p) == ls \ {p}
ssListen(ls, p) == {p}
ssEnd(ls, p) == ls \ {p}
ssBegin(ls, p) == ssListen(ls, p)

endReceivers(v, ls) ==
  IF v = "mega" THEN hwEnd(hwEnd(ls, "M"), "L") ELSE ssEnd(ssEnd(ls, "M"), "L")

\* a restart that leaves the ports ended
beginReceivers_none(v, ls) == ls

\* begin() both ports; the shared-receiver sketch then "restores" the listener
\* from what isListening() says after the restart.
beginReceivers(v, ls) ==
  IF v = "mega" THEN hwBegin(hwBegin(ls, "M"), "L")
  ELSE LET a == ssBegin(ssBegin(ls, "M"), "L")
       IN IF isListening(a, "M") THEN ssListen(a, "M") ELSE ssListen(a, "L")

\* setup(): begin both ports, then SoftM.listen()
setupReceivers(v) ==
  IF v = "mega" THEN hwBegin(hwBegin({}, "M"), "L")
  ELSE ssListen(ssBegin(ssBegin({}, "M"), "L"), "M")

switchListener(ls) == IF isListening(ls, "M") THEN ssListen(ls, "L") ELSE ssListen(ls, "M")

\* millis() when setup() returns
Boot(v) == IF v = "esp" THEN SetupDelayMs ELSE 0
InHorizon(v, t) ==
  Sub32(t, Boot(v)) <= (IF v = "esp" THEN SWITCH_TIMEOUT_MS + 5 ELSE 0) + MaxElapsed

-----------------------------------------------------------------------------
(* Command lines *)

CmdLines ==
  { <<"B","=","9","6","0","0">>,
    <<"B","=","4","8","0","0">>,
    <<" ","b","="," ","4","8","0","0"," ">>,
    <<"B","=","0">>,
    <<"B","=","-","1">>,
    <<"B","=","x","y">>,
    <<"B","=">>,
    <<"D","=","t","r","u","e">>,
    <<"d","=","O","N">>,
    <<"D","=","\"","t","r","u","e","\"">>,
    <<"D","=","\"","o","n","\"">>,
    <<"D","=","1">>,
    <<"D","=","f","a","l","s","e">>,
    <<"D","=","o","f","f">>,
    <<"D","=","0">>,
    <<"D","=","\"","0","\"">>,
    <<"D","=","\"","F","a","l","s","e","\"">>,
    <<"D","=">>,
    <<"D","=","m","a","y","b","e">>,
    <<"X">>,
    <<" ">> }

S_true == <<"t","r","u","e">>
S_false == <<"f","a","l","s","e">>
Quoted(s) == <<"\"">> \o s \o <<"\"">>

\* The B= argument: [ok, baud].  mega.ino tests the long, b <= 0; the
\* shared-receiver sketch casts to uint32_t first and tests b == 0.
baudArg(v, num) ==
  LET b == toInt(num)
  IN IF v = "mega" THEN [ok |-> b > 0, baud |-> ToU32(b)]
     ELSE [ok |-> ToU32(b) # 0, baud |-> ToU32(b)]

\* debugArg that takes every token in double quotes as well
debugArg_anyQuoted(val) ==
  IF val \in {S_true, Quoted(S_true), <<"1">>, Quoted(<<"1">>), <<"o","n">>, Quoted(<<"o","n">>)}
  THEN "true"
  ELSE IF val \in {S_false, Quoted(S_false), <<"0">>, Quoted(<<"0">>),
                   <<"o","f","f">>, Quoted(<<"o","f","f">>)}
  THEN "false"
  ELSE "bad"

\* The D= argument: "true", "false" or "bad"
debugArg(val) ==
  IF val = S_true \/ val = Quoted(S_true) \/ val = <<"1">> \/ val = <<"o","n">>
  THEN "true"
  ELSE IF val = S_false \/ val = Quoted(S_false) \/ val = <<"0">> \/ val = <<"o","f","f">>
  THEN "false"
  ELSE "bad"

\* handleCommandLine, up to its effect: [kind, baud, on]
parseCommand(v, raw) ==
  LET line == trim(raw)
      u == toUpperCase(line)
      arg == trim(substring(line, 2))
      none == [kind |-> "empty", baud |-> 0, on |-> FALSE]
  IN IF Len(line) = 0 THEN none
     ELSE IF startsWith(u, <<"B","=">>)
     THEN IF baudArg(v, arg).ok
          THEN [none EXCEPT !.kind = "baud", !.baud = baudArg(v, arg).baud]
          ELSE [none EXCEPT !.kind = "badBaud"]
     ELSE IF startsWith(u, <<"D","=">>)
     THEN IF debugArg(toLowerCase(arg)) = "bad"
          THEN [none EXCEPT !.kind = "badDebug"]
          ELSE [none EXCEPT !.kind = "debug", !.on = (debugArg(toLowerCase(arg)) = "true")]
     ELSE [none EXCEPT !.kind = "unknown"]

\* the lines Spec sends: a baud change to the rate already set
SpecLines == { <<"B","=","9","6","0","0">> }

\* parseCommand, tabulated
Parsed == [v \in {"mega", "esp"}, line \in CmdLines |-> parseCommand(v, line)]

-----------------------------------------------------------------------------
(* Gap flush *)

\* the gap test with > for >=
flushOnGap_gt(v, tag, c, t) ==
  IF c.pos = 0 THEN [fired |-> FALSE, out |-> <<>>, ch |-> c]
  ELSE IF Sub32(t, c.lastByteMs) > FRAME_GAP_MS
  THEN [fired |-> TRUE,
        out |-> IF v = "mega" THEN <<FrameEv(tag, c)>> \o printKnownPacketsIfAny(tag, c)
                ELSE <<FrameEv(tag, c)>>,
        ch |-> bufClear(c)]
  ELSE [fired |-> FALSE, out |-> <<>>, ch |-> c]

\* maybeFlushOnGap (mega.ino) and checkFlush + printFrame (shared-receiver
\* sketch): [fired, out, ch].  Only mega.ino looks for a known packet.
flushOnGap(v, tag, c, t) ==
  IF c.pos = 0 THEN [fired |-> FALSE, out |-> <<>>, ch |-> c]
  ELSE IF Sub32(t, c.lastByteMs) >= FRAME_GAP_MS
  THEN [fired |-> TRUE,
        out |-> IF v = "mega" THEN <<FrameEv(tag, c)>> \o printKnownPacketsIfAny(tag, c)
                ELSE <<FrameEv(tag, c)>>,
        ch |-> bufClear(c)]
  ELSE [fired |-> FALSE, out |-> <<>>, ch |-> c]

\* the time-slice test with >= for >
switchDue_ge(t, last) == Sub32(t, last) >= SWITCH_TIMEOUT_MS

\* the time-slice test one millisecond late
switchDue_late(t, last) == Sub32(t, last) > SWITCH_TIMEOUT_MS + 1

\* if ((millis() - lastSwitchMs) > SWITCH_TIMEOUT_MS) switchListener();
switchDue(t, last) == Sub32(t, last) > SWITCH_TIMEOUT_MS

\* what a drain finds on port p when the wire carried bytes
available(ls, p, bytes) == IF isListening(ls, p) THEN bytes ELSE <<>>

\* drained that hands the bytes of wire L to channel M as well
drained_merged(v, ls, inM, inL) ==
  IF v = "mega"
  THEN [M |-> available(ls, "M", inM) \o available(ls, "L", inL),
        L |-> available(ls, "L", inL)]
  ELSE IF isListening(ls, "M")
  THEN [M |-> available(ls, "M", inM), L |-> <<>>]
  ELSE [M |-> available(ls, "L", inL), L |-> available(ls, "L", inL)]

\* loop() draining the port that is not listening
drained_swapped(v, ls, inM, inL) ==
  IF v = "mega"
  THEN [M |-> available(ls, "M", inM), L |-> available(ls, "L", inL)]
  ELSE IF isListening(ls, "M")
  THEN [M |-> <<>>, L |-> available(ls, "L", inL)]
  ELSE [M |-> available(ls, "M", inM), L |-> <<>>]

\* loop(): the ports drained and what each yields: [M, L]
drained(v, ls, inM, inL) ==
  IF v = "mega"
  THEN [M |-> available(ls, "M", inM), L |-> available(ls, "L", inL)]
  ELSE IF isListening(ls, "M")
  THEN [M |-> available(ls, "M", inM), L |-> <<>>]
  ELSE [M |-> <<>>, L |-> available(ls, "L", inL)]

echo(on, tag, bytes) ==
  IF on THEN [i \in 1..Len(bytes) |-> ByteEv(tag, bytes[i])] ELSE <<>>

-----------------------------------------------------------------------------
(* State machine *)

NoScan == [start |-> 0, len |-> 0, res |-> -1]

InitOf(v) ==
  /\ variant = v
  /\ pc = "idle"
  /\ now = Boot(v)
  /\ sniffBaud = InitSniffBaud
  /\ debugBytes = FALSE
  /\ listening = setupReceivers(v)
  /\ lastSwitchMs = Boot(v)
  /\ ch = [c \in Chan |-> bufClear(ChanInit)]
  /\ linesDone = 0
  /\ heard = [c \in Chan |-> <<>>]
  /\ heardAt = [c \in Chan |-> 0]
  /\ nSwitch = 0
  /\ scan = NoScan
  /\ ev = Step("setup", <<>>, <<>>, <<>>, <<>>)

Init == \E v \in {"mega", "esp"} : InitOf(v)

\* the core calls loop() again, d milliseconds after the previous pass ended; a
\* pass itself takes no time but for the delay(20) of a baud change
LoopEntry(d) ==
  /\ pc = "idle"
  /\ pc' = "poll"
  /\ now' = Add32(now, d)
  /\ linesDone' = 0
  /\ ev' = Step("loop", <<>>, <<>>, <<>>, <<>>)
  /\ UNCHANGED <<variant, sniffBaud, debugBytes, listening, lastSwitchMs,
                 ch, heard, heardAt, nSwitch, scan>>

\* pollPCCommands: one '\n' read, handleCommandLine(line).  A valid B= runs
\* applySniffBaud up to its delay(20).
HandleLine(line) ==
  /\ pc = "poll"
  /\ linesDone < MaxLines
  /\ linesDone' = linesDone + 1
  /\ LET cmd == Parsed[variant, line]
     IN /\ cmd.kind = "baud" => InHorizon(variant, now + SettleDelayMs)
        /\ pc' = IF cmd.kind = "baud" THEN "settle" ELSE "poll"
        /\ sniffBaud' = IF cmd.kind = "baud" THEN cmd.baud ELSE sniffBaud
        /\ listening' = IF cmd.kind = "baud" THEN endReceivers(variant, listening)
                        ELSE listening
        /\ debugBytes' = IF cmd.kind = "debug" THEN cmd.on ELSE debugBytes
        /\ ev' = Step("cmd", line, <<>>, <<>>,
                      CASE cmd.kind = "badBaud" -> <<ReplyEv("ERR baud", 0)>>
                        [] cmd.kind = "debug" -> <<ReplyEv("OK debug", cmd.on)>>
                        [] cmd.kind = "badDebug" -> <<ReplyEv("ERR debug", 0)>>
                        [] cmd.kind = "unknown" ->
                             <<ReplyEv("ERR unknown", 0), ReplyEv("usage", 0)>>
                        [] OTHER -> <<>>)
  /\ UNCHANGED <<variant, now, lastSwitchMs, ch, heard, heardAt, nSwitch, scan>>

\* applySniffBaud after its delay(20): begin() the ports, reply
SettleDone ==
  /\ pc = "settle"
  /\ pc' = "poll"
  /\ now' = Add32(now, SettleDelayMs)
  /\ listening' = beginReceivers(variant, listening)
  /\ ev' = Step("setBaud", <<>>, <<>>, <<>>, <<ReplyEv("OK baud", sniffBaud)>>)
  /\ UNCHANGED <<variant, sniffBaud, debugBytes, lastSwitchMs, ch, linesDone,
                 heard, heardAt, nSwitch, scan>>

\* pollPCCommands returns: Serial.available() is 0
PollDone ==
  /\ pc = "poll"
  /\ pc' = "drain"
  /\ ev' = Step("polled", <<>>, <<>>, <<>>, <<>>)
  /\ UNCHANGED <<variant, now, sniffBaud, debugBytes, listening, lastSwitchMs,
                 ch, linesDone, heard, heardAt, nSwitch, scan>>

\* the drain step of loop(); inM and inL are the bytes the two wires carried
\* since the previous drain
Drain(inM, inL) ==
  /\ pc = "drain"
  /\ pc' = "flushM"
  /\ LET d == drained(variant, listening, inM, inL)
     IN /\ ch' = [c \in Chan |-> drainInto(ch[c], d[c], now)]
        /\ ev' = Step("drain", <<>>, inM, inL,
                      echo(debugBytes, "M", d.M) \o echo(debugBytes, "L", d.L))
  /\ heard' = [M |-> heard.M \o (IF "M" \in listening THEN inM ELSE <<>>),
               L |-> heard.L \o (IF "L" \in listening THEN inL ELSE <<>>)]
  /\ heardAt' = [M |-> IF "M" \in listening /\ inM # <<>> THEN now ELSE heardAt.M,
                 L |-> IF "L" \in listening /\ inL # <<>> THEN now ELSE heardAt.L]
  /\ UNCHANGED <<variant, now, sniffBaud, debugBytes, listening, lastSwitchMs,
                 linesDone, nSwitch, scan>>

\* a gap-flush step of the shared-receiver sketch that switches the listener
\* when its time slice is over
Flush_switching(c) ==
  /\ pc = (IF c = "M" THEN "flushM" ELSE "flushL")
  /\ pc' = (IF c = "M" THEN "flushL" ELSE IF variant = "mega" THEN "idle" ELSE "switch")
  /\ LET r == flushOnGap(variant, c, ch[c], now)
     IN /\ ch' = [ch EXCEPT ![c] = r.ch]
        /\ heard' = IF r.fired THEN [heard EXCEPT ![c] = <<>>] ELSE heard
        /\ ev' = Step(IF c = "M" THEN "flushM" ELSE "flushL", <<>>, <<>>, <<>>, r.out)
  /\ IF variant = "esp" /\ switchDue(now, lastSwitchMs)
     THEN listening' = switchListener(listening) /\ lastSwitchMs' = now
     ELSE UNCHANGED <<listening, lastSwitchMs>>
  /\ UNCHANGED <<variant, now, sniffBaud, debugBytes, linesDone, heardAt, nSwitch, scan>>

\* maybeFlushOnGap(chM, "M") / checkFlush(chM, "M"), then the same for chL
Flush(c) ==
  /\ pc = (IF c = "M" THEN "flushM" ELSE "flushL")
  /\ pc' = (IF c = "M" THEN "flushL" ELSE IF variant = "mega" THEN "idle" ELSE "switch")
  /\ LET r == flushOnGap(variant, c, ch[c], now)
     IN /\ ch' = [ch EXCEPT ![c] = r.ch]
        /\ heard' = IF r.fired THEN [heard EXCEPT ![c] = <<>>] ELSE heard
        /\ ev' = Step(IF c = "M" THEN "flushM" ELSE "flushL", <<>>, <<>>, <<>>, r.out)
  /\ UNCHANGED <<variant, now, sniffBaud, debugBytes, listening, lastSwitchMs,
                 linesDone, heardAt, nSwitch, scan>>

\* the time-slice check that ends loop() in the shared-receiver sketch
SwitchCheck ==
  /\ pc = "switch"
  /\ pc' = "idle"
  /\ IF switchDue(now, lastSwitchMs)
     THEN /\ listening' = switchListener(listening)
          /\ lastSwitchMs' = now
          /\ nSwitch' = nSwitch + 1
     ELSE UNCHANGED <<listening, lastSwitchMs, nSwitch>>
  /\ ev' = Step("switch", <<>>, <<>>, <<>>, <<>>)
  /\ UNCHANGED <<variant, now, sniffBaud, debugBytes, ch, linesDone, heard, heardAt,
                 scan>>

Next ==
  \/ \E d \in TickSteps : InHorizon(variant, now + d) /\ LoopEntry(d)
  \/ \E line \in SpecLines : HandleLine(line)
  \/ SettleDone
  \/ PollDone
  \/ \E inM \in Bursts("M"), inL \in Bursts("L") :
        /\ Len(heard.M) + Len(inM) <= MaxFrame
        /\ Len(heard.L) + Len(inL) <= MaxFrame
        /\ Drain(inM, inL)
  \/ \E c \in Chan : Flush(c)
  \/ SwitchCheck

Spec == Init /\ [][Next]_vars

-----------------------------------------------------------------------------
(* Long frames: wire M carries a ramp, in bursts that fill the buffer      *)

FillBursts == {0, 64, 65}
Ramp(from, n) == [i \in 1..n |-> (from + i) % 256]

NextFill ==
  \/ \E d \in TickSteps : InHorizon(variant, now + d) /\ LoopEntry(d)
  \/ \E line \in SpecLines : HandleLine(line)
  \/ SettleDone
  \/ PollDone
  \/ \E n \in FillBursts :
        /\ Len(heard.M) + n <= BUFLEN + MaxExcess
        /\ Drain(Ramp(Len(heard.M), n), <<>>)
  \/ \E c \in Chan : Flush(c)
  \/ SwitchCheck

SpecFill == Init /\ [][NextFill]_vars

-----------------------------------------------------------------------------
(* Command handling: every line of CmdLines, little traffic *)

NextCmd ==
  \/ \E d \in TickSteps : InHorizon(variant, now + d) /\ LoopEntry(d)
  \/ \E line \in CmdLines : HandleLine(line)
  \/ SettleDone
  \/ PollDone
  \/ \E inM \in {<<>>, <<17>>} :
        /\ Len(heard.M) + Len(inM) <= 1
        /\ Drain(inM, <<>>)
  \/ \E c \in Chan : Flush(c)
  \/ SwitchCheck

SpecCmd == Init /\ [][NextCmd]_vars

-----------------------------------------------------------------------------
(* The shared-receiver sketch with a loop() pass at every millisecond, idle *)
(* wires and no command                                                     *)

MaxMs == 110   \* milliseconds explored after setup()

NextMs ==
  \/ Sub32(now, Boot(variant)) < MaxMs /\ LoopEntry(1)
  \/ PollDone
  \/ Drain(<<>>, <<>>)
  \/ \E c \in Chan : Flush(c)
  \/ SwitchCheck

SpecMs == InitOf("esp") /\ [][NextMs]_vars

-----------------------------------------------------------------------------
(* findPacket on its own: any buffer, start byte and length *)

MaxScanLen == 4
ScanBytes == {0, 12, 67, 134}
ExampleChk == (1 + 2 + 3 + 4 + 5 + 6 + 67) % 256
ExampleBuf == <<0, 67, 1, 2, 3, 4, 5, 6, ExampleChk>>
ScanBufs == SeqsUpTo(ScanBytes, MaxScanLen) \cup {ExampleBuf}
ScanLens == (0..MaxScanLen) \cup {8, 9}

InitScan ==
  /\ variant = "mega"
  /\ pc = "scan"
  /\ now = 0
  /\ sniffBaud = InitSniffBaud
  /\ debugBytes = FALSE
  /\ listening = setupReceivers("mega")
  /\ lastSwitchMs = 0
  /\ \E b \in ScanBufs :
        ch = [c \in Chan |-> IF c = "M" THEN [ChanInit EXCEPT !.buf = b, !.pos = Len(b)]
                             ELSE ChanInit]
  /\ linesDone = 0
  /\ heard = [c \in Chan |-> <<>>]
  /\ heardAt = [c \in Chan |-> 0]
  /\ nSwitch = 0
  /\ \E st \in {67, 134}, len \in ScanLens : scan = [start |-> st, len |-> len, res |-> -1]
  /\ ev = Step("setup", <<>>, <<>>, <<>>, <<>>)

ScanCall ==
  /\ pc = "scan"
  /\ pc' = "scanned"
  /\ scan' = [scan EXCEPT !.res = findPacket(ch["M"], scan.start, scan.len)]
  /\ ev' = Step("scan", <<>>, <<>>, <<>>, <<>>)
  /\ UNCHANGED <<variant, now, sniffBaud, debugBytes, listening, lastSwitchMs, ch,
                 linesDone, heard, heardAt, nSwitch>>

SpecScan == InitScan /\ [][ScanCall]_vars

-----------------------------------------------------------------------------
(* Both wires busy: wire M carries the ramp in long bursts while wire L     *)
(* carries single bytes of a value the ramp never reaches; no command       *)

PairBytes == {251}

NextPair ==
  \/ \E d \in TickSteps : InHorizon(variant, now + d) /\ LoopEntry(d)
  \/ PollDone
  \/ \E n \in FillBursts, inL \in {<<>>} \cup {<<b>> : b \in PairBytes} :
        /\ Len(heard.M) + n <= BUFLEN + MaxExcess
        /\ Len(heard.L) + Len(inL) <= MaxFrame
        /\ Drain(Ramp(Len(heard.M), n), inL)
  \/ \E c \in Chan : Flush(c)
  \/ SwitchCheck

SpecPair == Init /\ [][NextPair]_vars

-----------------------------------------------------------------------------
(* The text of a frame, as a sequence of characters *)

HexChars == <<"0","1","2","3","4","5","6","7","8","9","A","B","C","D","E","F">>
NewLine == <<"\r", "\n">>

\* Serial.print(n): decimal, no leading zero
RECURSIVE printDec(_)
printDec(n) ==
  IF n < 10 THEN <<DigitChars[n + 1]>> ELSE printDec(n \div 10) \o <<DigitChars[(n % 10) + 1]>>

\* Serial.print(b, HEX): upper-case hexadecimal, no leading zero
RECURSIVE printHex(_)
printHex(n) ==
  IF n < 16 THEN <<HexChars[n + 1]>> ELSE printHex(n \div 16) \o <<HexChars[(n % 16) + 1]>>

printHex2(b) == (IF b < 16 THEN <<"0">> ELSE <<>>) \o printHex(b)

\* for (i = 0; i < ch.pos; i++) { printHex2; print(' '); if ((i + 1) % 16 == 0) println }
\* the cells from..to of the C array, by halves
RECURSIVE printCells(_, _, _)
printCells(c, from, to) ==
  IF from > to THEN <<>>
  ELSE IF from = to
  THEN printHex2(c.buf[from + 1]) \o <<" ">>
       \o (IF (from + 1) % 16 = 0 THEN NewLine ELSE <<>>)
  ELSE LET mid == (from + to) \div 2
       IN printCells(c, from, mid) \o printCells(c, mid + 1, to)

\* printBufferFrame (mega.ino) and printFrame up to its bufClear
\* (shared-receiver sketch, which prints no " bytes")
printBufferFrame(v, tag, c) ==
  <<tag>> \o <<" ","f","r","a","m","e"," ","(">> \o printDec(c.pos)
  \o (IF v = "mega" THEN <<" ","b","y","t","e","s">> ELSE <<>>)
  \o (IF c.overflow THEN <<","," ","O","V","E","R","F","L","O","W">> ELSE <<>>)
  \o <<")",":">> \o NewLine
  \o printCells(c, 0, c.pos - 1)
  \o NewLine

TextEv(tag, chars) == [type |-> "text", tag |-> tag, chars |-> chars]

\* the buffers printed: short ones of any content, and ramps that cross the
\* 16-byte lines; the overflow flag can be set in a full buffer only
MaxPrintLen == 3
PrintBytes == {0, 10, 171, 255}
PrintBufs ==
  (SeqsUpTo(PrintBytes, MaxPrintLen)
     \cup {Ramp(from, n) : from \in {0, 9, 200}, n \in {15, 16, 17, 32, 33}}
     \cup {Ramp(100, BUFLEN)})
  \ {<<>>}

InitPrint ==
  /\ variant \in {"mega", "esp"}
  /\ pc \in {"printM", "printL"}
  /\ now = 0
  /\ sniffBaud = InitSniffBaud
  /\ debugBytes = FALSE
  /\ listening = setupReceivers(variant)
  /\ lastSwitchMs = 0
  /\ \E b \in PrintBufs, o \in BOOLEAN :
        /\ o => Len(b) = BUFLEN
        /\ ch = [c \in Chan |->
                   IF pc = (IF c = "M" THEN "printM" ELSE "printL")
                   THEN [ChanInit EXCEPT !.buf = b, !.pos = Len(b), !.overflow = o]
                   ELSE ChanInit]
  /\ linesDone = 0
  /\ heard = [c \in Chan |-> <<>>]
  /\ heardAt = [c \in Chan |-> 0]
  /\ nSwitch = 0
  /\ scan = NoScan
  /\ ev = Step("setup", <<>>, <<>>, <<>>, <<>>)

PrintCall(c) ==
  /\ pc = (IF c = "M" THEN "printM" ELSE "printL")
  /\ pc' = "printed"
  /\ ev' = Step("print", <<>>, <<>>, <<>>,
                <<TextEv(c, printBufferFrame(variant, c, ch[c]))>>)
  /\ UNCHANGED <<variant, now, sniffBaud, debugBytes, listening, lastSwitchMs, ch,
                 linesDone, heard, heardAt, nSwitch, scan>>

NextPrint == \E c \in Chan : PrintCall(c)

SpecPrint == InitPrint /\ [][NextPrint]_vars

-----------------------------------------------------------------------------
(* A full buffer that keeps receiving: wire M carries the ramp in bursts of  *)
(* 64 until the buffer is full, then byte by byte; no command                *)

FullBursts(h) == IF h < BUFLEN THEN {0, 64} ELSE {0, 1}

NextFull ==
  \/ \E d \in TickSteps : InHorizon(variant, now + d) /\ LoopEntry(d)
  \/ PollDone
  \/ \E n \in FullBursts(Len(heard.M)) :
        /\ Len(heard.M) + n <= BUFLEN + MaxExcess
        /\ Drain(Ramp(Len(heard.M), n), <<>>)
  \/ \E c \in Chan : Flush(c)
  \/ SwitchCheck

SpecFull == Init /\ [][NextFull]_vars

-----------------------------------------------------------------------------
(* Known packets on the wires: wire M carries a Motor packet or 64 bytes of  *)
(* other traffic, wire L an LCD packet; no command                           *)

MotorPacket ==
  <<START_MOTOR, 1, 2, 3, 4, 5, 6, 7, (START_MOTOR + 1 + 2 + 3 + 4 + 5 + 6 + 7) % 256>>
LcdPacket == <<START_LCD, 1, 2, 3, 4, 5, (START_LCD + 1 + 2 + 3 + 4 + 5) % 256>>
KnownBurstsM == {<<>>, MotorPacket, Ramp(100, 64)}
KnownBurstsL == {<<>>, LcdPacket}

NextKnown ==
  \/ \E d \in TickSteps : InHorizon(variant, now + d) /\ LoopEntry(d)
  \/ PollDone
  \/ \E inM \in KnownBurstsM, inL \in KnownBurstsL :
        /\ Len(heard.M) + Len(inM) <= BUFLEN + LEN_MOTOR
        /\ Len(heard.L) + Len(inL) <= LEN_LCD
        /\ Drain(inM, inL)
  \/ \E c \in Chan : Flush(c)
  \/ SwitchCheck

SpecKnown == Init /\ [][NextKnown]_vars

-----------------------------------------------------------------------------
(* The loop running for ever.  loop() is called again and again and every    *)
(* call returns; millis() keeps advancing, here up to LiveMs after setup();   *)
(* the wires fall silent FRAME_GAP_MS before that.                            *)

LiveMs == 60
InLive(t) == Sub32(t, Boot(variant)) <= LiveMs
WiresLive == Sub32(now, Boot(variant)) + FRAME_GAP_MS <= LiveMs

\* a loop() pass that starts later than the previous one ended
Advance == \E d \in TickSteps \ {0} : InLive(now + d) /\ LoopEntry(d)

DrainLive ==
  \E inM \in {<<>>, <<17>>}, inL \in {<<>>, <<51>>} :
     /\ (inM # <<>> \/ inL # <<>>) => WiresLive
     /\ Len(heard.M) + Len(inM) <= 1
     /\ Len(heard.L) + Len(inL) <= 1
     /\ Drain(inM, inL)

\* the steps that finish a loop() pass once it has started
Pass ==
  \/ PollDone
  \/ SettleDone
  \/ DrainLive
  \/ \E c \in Chan : Flush(c)
  \/ SwitchCheck

NextLive ==
  \/ InLive(now) /\ LoopEntry(0)
  \/ Advance
  \/ \E line \in SpecLines : InLive(now + SettleDelayMs) /\ HandleLine(line)
  \/ Pass

SpecLive == Init /\ [][NextLive]_vars /\ WF_vars(Pass) /\ SF_vars(Advance)

-----------------------------------------------------------------------------
(* millis() wrapping: the sketch has run with silent wires until WrapLead     *)
(* milliseconds before the counter wraps, the shared-receiver sketch having   *)
(* just switched its listener; then traffic starts.  No command.              *)

WrapLead == 30    \* milliseconds from the first state to the wrap
WrapMs == 60      \* milliseconds explored after the wrap

\* a counter value near the wrap as a signed distance from it
Lin(t) == IF t >= UWord \div 2 THEN t - UWord ELSE t

InitWrap ==
  /\ variant \in {"mega", "esp"}
  /\ pc = "idle"
  /\ now = UWord - WrapLead
  /\ sniffBaud = InitSniffBaud
  /\ debugBytes = FALSE
  /\ listening \in (IF variant = "mega" THEN {setupReceivers("mega")}
                    ELSE {setupReceivers("esp"), switchListener(setupReceivers("esp"))})
  /\ lastSwitchMs = (IF variant = "mega" THEN Boot("mega") ELSE now)
  /\ ch = [c \in Chan |-> bufClear(ChanInit)]
  /\ linesDone = 0
  /\ heard = [c \in Chan |-> <<>>]
  /\ heardAt = [c \in Chan |-> 0]
  /\ nSwitch = 0
  /\ scan = NoScan
  /\ ev = Step("switch", <<>>, <<>>, <<>>, <<>>)

NextWrap ==
  \/ \E d \in TickSteps : Lin(Add32(now, d)) <= WrapMs /\ LoopEntry(d)
  \/ PollDone
  \/ \E inM \in {<<>>, <<17>>}, inL \in {<<>>, <<51>>} :
        /\ Len(heard.M) + Len(inM) <= 1
        /\ Len(heard.L) + Len(inL) <= 1
        /\ Drain(inM, inL)
  \/ \E c \in Chan : Flush(c)
  \/ SwitchCheck

SpecWrap == InitWrap /\ [][NextWrap]_vars

-----------------------------------------------------------------------------
(* Claims *)

FlushPc(c) == IF c = "M" THEN "flushM" ELSE "flushL"
Take(s, n) == SubSeq(s, 1, IF Len(s) < n THEN Len(s) ELSE n)
Silent(c) == Sub32(now, heardAt[c]) >= FRAME_GAP_MS

\* C1: bytes taken on a channel with gaps below FRAME_GAP_MS are never split: a
\* frame for the channel comes out only in its gap-flush step and only once
\* FRAME_GAP_MS have passed since its last byte; and when 1..BUFLEN bytes have
\* been taken and the gap-flush step finds that silence, it prints exactly one
\* frame, holding all those bytes in order with no overflow mark, and the
\* buffer is empty afterwards.
C1_OneFrameAfterSilence ==
  [][\A c \in Chan :
       LET fr == Frames(ev'.out, c)
       IN /\ fr # {} => pc = FlushPc(c) /\ Silent(c) /\ Cardinality(fr) = 1
          /\ ( /\ pc = FlushPc(c)
               /\ Len(heard[c]) \in 1..BUFLEN
               /\ Silent(c) )
             => /\ Cardinality(fr) = 1
                /\ \A i \in fr : /\ ev'.out[i].bytes = heard[c]
                                  /\ ev'.out[i].n = Len(heard[c])
                                  /\ ev'.out[i].overflow = FALSE
                /\ ch'[c].pos = 0
                /\ heard'[c] = <<>>]_vars

C1_Witness ==
  /\ ev.op = "flushM"
  /\ \E i \in Frames(ev.out, "M") : ev.out[i].n >= 2 /\ ~ev.out[i].overflow

\* C2: right after a baud change completes, every channel buffer is empty
\* and unmarked, whatever it held before.
C2_DiscardOnReconfig ==
  ev.op = "setBaud" => \A c \in Chan : ch[c].pos = 0 /\ ~ch[c].overflow

\* the B= lines whose value is <= 0 or not a number
BadBaudLines ==
  { <<"B","=","0">>, <<"B","=","-","1">>, <<"B","=","x","y">>, <<"B","=">> }

\* C3: a B= line whose value is <= 0 or not a number is answered with the
\* baud error alone and changes neither the baud rate, nor the receivers, nor
\* a channel buffer, nor the arbiter, in both sketches.
C3_BadBaudRejected ==
  [][(pc = "poll" /\ ev'.op = "cmd" /\ ev'.line \in BadBaudLines)
       => /\ ev'.out = <<ReplyEv("ERR baud", 0)>>
          /\ pc' = "poll"
          /\ UNCHANGED <<sniffBaud, listening, ch, lastSwitchMs, debugBytes>>]_vars

\* C4: in the shared-receiver sketch the channel listening after a baud
\* change is the channel that was listening before it.
C4_ListenerRestored ==
  [][(variant = "esp" /\ pc = "settle" /\ ev.op = "cmd") => listening' = ev.was]_vars

\* C5: every frame holds the first BUFLEN bytes taken since the previous frame
\* of its channel, in order; it is marked overflow exactly when more than BUFLEN
\* were taken, and the bytes beyond BUFLEN are in no frame: the buffer is empty
\* and unmarked after the frame.
C5_OverflowTruncates ==
  [][\A c \in Chan : \A i \in Frames(ev'.out, c) :
       /\ ev'.out[i].bytes = Take(heard[c], BUFLEN)
       /\ ev'.out[i].n = Len(Take(heard[c], BUFLEN))
       /\ ev'.out[i].overflow = (Len(heard[c]) > BUFLEN)
       /\ Cardinality(Frames(ev'.out, c)) = 1
       /\ ch'[c] = [ch[c] EXCEPT !.buf = <<>>, !.pos = 0, !.overflow = FALSE]
       /\ heard'[c] = <<>>]_vars

C5_Witness ==
  \E i \in Frames(ev.out, "M") :
    ev.out[i].n = BUFLEN /\ ev.out[i].overflow /\ Len(ev.out[i].bytes) = BUFLEN

\* C6: pos never exceeds BUFLEN, overflow is set only at pos = BUFLEN, and a set
\* overflow flag is reset only by a clear (pos back to 0, in a gap flush or a
\* baud change), never by an add.
C6_LengthAndOverflow ==
  /\ [](\A c \in Chan : /\ ch[c].pos <= BUFLEN
                        /\ Len(ch[c].buf) = ch[c].pos
                        /\ ch[c].overflow => ch[c].pos = BUFLEN)
  /\ [][\A c \in Chan :
          (ch[c].overflow /\ ~ch'[c].overflow)
            => ch'[c].pos = 0 /\ ev'.op \in {FlushPc(c), "cmd", "setBaud"}]_vars

C6_Witness ==
  /\ ev.op = "drain"
  /\ ch["M"].overflow
  /\ ch["M"].pos = BUFLEN
  /\ Len(heard["M"]) >= BUFLEN + 2

\* milliseconds since setup() returned
Elapsed == Sub32(now, Boot(variant))
ActiveBy(n) == IF n % 2 = 0 THEN {"M"} ELSE {"L"}

C8_AlwaysOneListener ==
  variant = "esp" => Cardinality(listening) = 1

\* C8, amended: after setup() Motor listens; exactly one channel listens in
\* every state but those of the settle delay of a baud change, in which both
\* ports are ended and none listens; when the baud change completes exactly
\* one channel listens again.
C8_OneListenerButSettle ==
  variant = "esp" =>
    /\ ev.op = "setup" => listening = {"M"}
    /\ pc = "settle" => listening = {}
    /\ pc # "settle" => Cardinality(listening) = 1 /\ listening \subseteq Chan

C8_Witness ==
  variant = "esp" /\ ev.op = "setBaud" /\ Cardinality(listening) = 1 /\ ev.was = {}

\* the additive 8-bit checksum, summed from the right
RECURSIVE SumBytes(_)
SumBytes(s) == IF s = <<>> THEN 0 ELSE s[Len(s)] + SumBytes(SubSeq(s, 1, Len(s) - 1))

\* the offsets at which buf holds a packet: it fits, it begins with the start
\* byte, and its last byte is the sum of the others modulo 256
Matches(buf, start, len) ==
  {i \in 0..(Len(buf) - len) :
     /\ buf[i + 1] = start
     /\ SumBytes(SubSeq(buf, i + 1, i + len - 1)) % 256 = buf[i + len]}

\* C9 as stated, its example: the 9 bytes <<0x00, 0x43, 1..6, chk>> hold a
\* packet of start 0x43 and length 9 at offset 1.
C9_ExampleAtLength9 ==
  (pc = "scanned" /\ ch["M"].buf = ExampleBuf /\ scan.start = START_MOTOR /\ scan.len = 9)
    => scan.res = 1

\* C9, amended: for a length >= 2 findPacket returns the smallest offset that
\* holds a packet, and -1 when there is none or the buffer is shorter than the
\* length; a returned offset leaves room for the whole packet.  In the example
\* buffer, 9 bytes long, a packet at offset 1 has room for 8 bytes only: length
\* 9 finds nothing, length 8 finds offset 1.
C9_FirstMatch ==
  pc = "scanned" =>
    LET buf == ch["M"].buf
        m == Matches(buf, scan.start, scan.len)
    IN /\ scan.len >= 2 =>
            /\ m = {} => scan.res = -1
            /\ m # {} => scan.res \in m /\ \A j \in m : scan.res <= j
            /\ scan.res >= 0 => scan.res + scan.len <= Len(buf)
            /\ Len(buf) < scan.len => scan.res = -1
       /\ (buf = ExampleBuf /\ scan.start = START_MOTOR) =>
            /\ scan.len = 9 => scan.res = -1
            /\ scan.len = 8 => scan.res = 1

C9_Witness ==
  /\ pc = "scanned"
  /\ scan.len >= 2
  /\ scan.res = 1
  /\ Cardinality(Matches(ch["M"].buf, scan.start, scan.len)) >= 2

\* C10: in the shared-receiver sketch the drain step leaves the ChanState of
\* a channel that is not listening as it was, whatever its wire carried; a
\* buffer holds only bytes that came in while its channel listened, and so
\* does every frame.
C10_OnlyActiveChannelFills ==
  /\ [](variant = "esp" => \A c \in Chan : ch[c].buf = Take(heard[c], BUFLEN))
  /\ [][variant = "esp" =>
          \A c \in Chan :
            /\ (pc = "drain" /\ c \notin listening) => ch'[c] = ch[c]
            /\ (pc = "drain" /\ c \in listening) =>
                 ch'[c].buf = Take(ch[c].buf \o (IF c = "M" THEN ev'.inM ELSE ev'.inL),
                                   BUFLEN)
            /\ \A i \in Frames(ev'.out, c) : ev'.out[i].bytes = Take(heard[c], BUFLEN)]_vars

C10_Witness ==
  /\ variant = "esp"
  /\ ev.op = "drain"
  /\ ev.was = {"L"}
  /\ ev.inM # <<>>
  /\ ev.inL # <<>>
  /\ ch["M"].pos > 0

Other(c) == IF c = "M" THEN "L" ELSE "M"
WireIn(e, c) == IF c = "M" THEN e.inM ELSE e.inL

\* C11: the channels are independent.  A drain that finds nothing for a
\* channel leaves its buf, pos, overflow and lastByteMs as they were, whatever
\* the other channel took or dropped in the same drain; the gap-flush step of
\* one channel leaves the other channel as it was; each buffer holds the first
\* BUFLEN bytes of its own wire and the time of its own last byte; and every
\* frame holds bytes of the wire of its tag only.
C11_ChannelsIndependent ==
  /\ [](\A c \in Chan : /\ ch[c].buf = Take(heard[c], BUFLEN)
                        /\ ch[c].pos > 0 => ch[c].lastByteMs = heardAt[c])
  /\ [][\A c \in Chan :
          /\ (pc = "drain" /\ (WireIn(ev', c) = <<>> \/ c \notin listening))
               => ch'[c] = ch[c]
          /\ pc = FlushPc(Other(c)) => ch'[c] = ch[c]
          /\ \A i \in Frames(ev'.out, c) :
               /\ ev'.out[i].bytes = Take(heard[c], BUFLEN)
               /\ \A k \in 1..Len(ev'.out[i].bytes) :
                    IF c = "M" THEN ev'.out[i].bytes[k] \notin PairBytes
                    ELSE ev'.out[i].bytes[k] \in PairBytes]_vars

\* channel M overflows in a drain that finds nothing on wire L, while
\* channel L holds a byte
C11_Witness ==
  /\ variant = "mega"
  /\ ev.op = "drain"
  /\ ev.inM # <<>>
  /\ ev.inL = <<>>
  /\ ch["M"].overflow
  /\ ch["L"].pos = 1

\* a D= line and its token: the text after "D=", trimmed, in lower case
IsDLine(line) == startsWith(toUpperCase(trim(line)), <<"D","=">>)
Token(line) == toLowerCase(trim(substring(trim(line), 2)))
Unquote(t) ==
  IF Len(t) >= 2 /\ t[1] = "\"" /\ t[Len(t)] = "\"" THEN SubSeq(t, 2, Len(t) - 1) ELSE t
TrueLike == { <<"t","r","u","e">>, <<"1">>, <<"o","n">> }
FalseLike == { <<"f","a","l","s","e">>, <<"0">>, <<"o","f","f">> }

\* the effect of a D= line that is taken as the value on
DebugSet(on) ==
  /\ debugBytes' = on
  /\ ev'.out = <<ReplyEv("OK debug", on)>>
\* the effect of a D= line that is refused
DebugRefused ==
  /\ ev'.out = <<ReplyEv("ERR debug", 0)>>
  /\ pc' = "poll"
  /\ UNCHANGED <<debugBytes, sniffBaud, ch, listening, lastSwitchMs>>

\* C12 as stated: a true-like token (true, 1, on), in double quotes or not,
\* sets debugBytes; a false-like token (false, 0, off), in double quotes or
\* not, resets it; any other token is refused with one error reply and
\* changes nothing.
C12_QuotedTokens ==
  [][(pc = "poll" /\ ev'.op = "cmd" /\ IsDLine(ev'.line)) =>
       LET t == Token(ev'.line)
       IN IF Unquote(t) \in TrueLike THEN DebugSet(TRUE)
          ELSE IF Unquote(t) \in FalseLike THEN DebugSet(FALSE)
          ELSE DebugRefused]_vars

\* C12, amended: the tokens true, 1, on and "true" (in double quotes) set
\* debugBytes, the tokens false, 0, off and "false" reset it, in any letter
\* case; every other token, the quoted "1", "on", "0" and "off" among them, is
\* refused with one error reply and changes neither debugBytes, nor the baud
\* rate, nor a channel buffer, nor the receivers, nor lastSwitchMs.
C12_DebugTokens ==
  [][(pc = "poll" /\ ev'.op = "cmd" /\ IsDLine(ev'.line)) =>
       LET t == Token(ev'.line)
       IN /\ UNCHANGED <<sniffBaud, ch, listening, lastSwitchMs>>
          /\ IF t \in TrueLike \cup {Quoted(<<"t","r","u","e">>)} THEN DebugSet(TRUE)
             ELSE IF t \in FalseLike \cup {Quoted(<<"f","a","l","s","e">>)}
             THEN DebugSet(FALSE)
             ELSE DebugRefused]_vars

\* the quoted "on" was refused while debugBytes was set
C12_Witness ==
  /\ ev.op = "cmd"
  /\ ev.line = <<"D","=","\"","o","n","\"">>
  /\ ev.out = <<ReplyEv("ERR debug", 0)>>
  /\ debugBytes

\* reading a dump back: the tokens between blanks and line ends, as numbers
IsWs(x) == x \in {" ", "\t", "\r", "\n"}
TokenStarts(s) == {i \in 1..Len(s) : ~IsWs(s[i]) /\ (i = 1 \/ IsWs(s[i - 1]))}
TokenAt(s, i) ==
  SubSeq(s, i, CHOOSE j \in i..Len(s) :
                 /\ \A k \in i..j : ~IsWs(s[k])
                 /\ (j = Len(s) \/ IsWs(s[j + 1])))
IsHexChar(x) == \E d \in 1..16 : HexChars[d] = toUpperChar(x)
HexCharVal(x) == (CHOOSE d \in 1..16 : HexChars[d] = toUpperChar(x)) - 1
RECURSIVE ParseHex(_)
ParseHex(t) ==
  IF t = <<>> THEN 0 ELSE ParseHex(SubSeq(t, 1, Len(t) - 1)) * 16 + HexCharVal(t[Len(t)])
LineEnds(s, upto) == Cardinality({i \in 1..upto : s[i] = "\n"})

\* the header line of a text (without its line end) and what follows it
HeaderEnd(s) == CHOOSE i \in 1..Len(s) : s[i] = "\r" /\ \A j \in 1..(i - 1) : s[j] # "\r"
HeaderOf(s) == SubSeq(s, 1, HeaderEnd(s) - 1)
DumpOf(s) == SubSeq(s, HeaderEnd(s) + 2, Len(s))

\* "<TAG> frame (<n> bytes[, OVERFLOW]):"
DocHeader(tag, n, ovf) ==
  <<tag>> \o <<" ","f","r","a","m","e"," ","(">> \o printDec(n) \o <<" ","b","y","t","e","s">>
  \o (IF ovf THEN <<","," ","O","V","E","R","F","L","O","W">> ELSE <<>>) \o <<")",":">>

\* the dump part of a printed frame: as many tokens as the buffer has bytes,
\* each of two hexadecimal digits, the k-th one on line (k - 1) \div 16, and
\* read back as numbers they are the bytes of the buffer in order
DumpReadsBack(txt, c) ==
  LET d == DumpOf(txt)
      st == TokenStarts(d)
      at == [k \in 1..Cardinality(st) |->
               CHOOSE i \in st : Cardinality({j \in st : j <= i}) = k]
  IN /\ Cardinality(st) = c.pos
     /\ \A k \in 1..Cardinality(st) :
          /\ Len(TokenAt(d, at[k])) = 2
          /\ \A x \in 1..2 : IsHexChar(TokenAt(d, at[k])[x])
          /\ LineEnds(d, at[k]) = (k - 1) \div 16
     /\ [k \in 1..Cardinality(st) |-> ParseHex(TokenAt(d, at[k]))] = c.buf

\* C13: in both sketches a frame of N bytes is printed as the header
\* "<TAG> frame (<n> bytes[, OVERFLOW]):" with n = N and OVERFLOW exactly when
\* the overflow flag is set, then N two-digit hexadecimal tokens, a line break
\* after every 16th, that read back as the N bytes in order.
C13_FrameText ==
  pc = "printed" =>
    \A c \in Chan : \A i \in 1..Len(ev.out) :
      (ev.out[i].type = "text" /\ ev.out[i].tag = c) =>
        /\ HeaderOf(ev.out[i].chars) = DocHeader(c, ch[c].pos, ch[c].overflow)
        /\ DumpReadsBack(ev.out[i].chars, ch[c])

Flipped(ls) == IF ls = {"M"} THEN {"L"} ELSE {"M"}

C15_StepOrder ==
  [][/\ pc = "idle" => pc' = "poll" /\ ev'.op = "loop"
     /\ pc = "poll" => \/ pc' = "poll" /\ ev'.op = "cmd"
                       \/ pc' = "settle" /\ ev'.op = "cmd"
                       \/ pc' = "drain" /\ ev'.op = "polled"
     /\ pc = "settle" => pc' = "poll" /\ ev'.op = "setBaud"
     /\ pc = "drain" => pc' = "flushM" /\ ev'.op = "drain"
     /\ pc = "flushM" => pc' = "flushL" /\ ev'.op = "flushM"
     /\ pc = "flushL" => /\ pc' = (IF variant = "esp" THEN "switch" ELSE "idle")
                         /\ ev'.op = "flushL"
     /\ pc = "switch" => variant = "esp" /\ pc' = "idle" /\ ev'.op = "switch"
     /\ pc \in {"drain", "flushM", "flushL"} => UNCHANGED <<listening, lastSwitchMs>>
     /\ listening' # listening => pc \in {"poll", "settle", "switch"}
     /\ \A c \in Chan : Frames(ev'.out, c) # {} => pc = FlushPc(c)]_vars

\* a pass of the shared-receiver sketch ended with a switch away from M
\* while channel M held bytes
C15_Witness ==
  /\ variant = "esp"
  /\ pc = "idle"
  /\ ev.op = "switch"
  /\ ev.was = {"M"}
  /\ listening = {"L"}
  /\ ch["M"].pos > 0

GapOf(c) == Sub32(now, ch[c].lastByteMs)

\* C16: the gap-flush step of a channel prints a frame exactly when pos > 0
\* and now - lastByteMs >= FRAME_GAP_MS: then it prints one frame with the
\* bytes of the buffer, pos as the count and the overflow flag, and leaves
\* pos = 0 and overflow = false; otherwise it prints nothing and leaves the
\* channel as it was.  No frame has zero bytes, and no other step prints a
\* frame.
C16_FlushRule ==
  [][\A c \in Chan :
       LET fr == Frames(ev'.out, c)
       IN /\ pc # FlushPc(c) => fr = {}
          /\ \A i \in fr : ev'.out[i].n > 0
          /\ pc = FlushPc(c) =>
               IF ch[c].pos > 0 /\ GapOf(c) >= FRAME_GAP_MS
               THEN /\ Cardinality(fr) = 1
                    /\ \A i \in fr : /\ ev'.out[i].bytes = ch[c].buf
                                      /\ ev'.out[i].n = ch[c].pos
                                      /\ ev'.out[i].overflow = ch[c].overflow
                    /\ ch'[c].pos = 0
                    /\ ch'[c].buf = <<>>
                    /\ ~ch'[c].overflow
               ELSE fr = {} /\ ch'[c] = ch[c]]_vars

\* a frame came out when the gap was FRAME_GAP_MS exactly
C16_Witness ==
  /\ ev.op = "flushM"
  /\ Frames(ev.out, "M") # {}
  /\ GapOf("M") = FRAME_GAP_MS
  /\ ch["M"].pos = 0

\* C17: every byte taken for a channel sets its lastByteMs to millis(), the
\* bytes dropped at a full buffer too; so a frame comes out only once
\* FRAME_GAP_MS have passed since the last byte taken, stored or dropped, and
\* a full buffer that keeps receiving is not flushed.
C17_StampOnEveryAdd ==
  [][\A c \in Chan :
       /\ (pc = "drain" /\ c \in listening /\ WireIn(ev', c) # <<>>)
            => ch'[c].lastByteMs = now
       /\ (pc = "drain" /\ c \in listening /\ WireIn(ev', c) # <<>> /\ ch[c].pos = BUFLEN)
            => /\ ch'[c].overflow
               /\ ch'[c].buf = ch[c].buf
               /\ ch'[c].lastByteMs = now
       /\ Frames(ev'.out, c) # {} => Silent(c)
       /\ (pc = FlushPc(c) /\ ~Silent(c)) => ch'[c] = ch[c]]_vars

\* a drain dropped its byte at a buffer that was full before it, some time
\* after setup()
C17_Witness ==
  /\ ev.op = "drain"
  /\ Len(ev.inM) = 1
  /\ Len(heard["M"]) = BUFLEN + 2
  /\ ch["M"].pos = BUFLEN
  /\ ch["M"].overflow
  /\ ch["M"].lastByteMs = now
  /\ Sub32(now, Boot(variant)) >= 10

StartOf(c) == IF c = "M" THEN START_MOTOR ELSE START_LCD
LenOf(c) == IF c = "M" THEN LEN_MOTOR ELSE LEN_LCD
NameOf(c) == IF c = "M" THEN "Motor" ELSE "LCD"
Knowns(out) == {k \in 1..Len(out) : out[k].type = "known"}

\* C18: in both sketches every frame is scanned for the known packet of its
\* channel (Motor: START_MOTOR, LEN_MOTOR; LCD: START_LCD, LEN_LCD), on the
\* bytes of the frame and before the buffer is cleared, with or without
\* overflow: a frame that holds the packet is followed by the report of its
\* first offset and its bytes, a frame that does not is followed by none, and
\* no report comes out without a frame.
C18_EveryFrameScanned ==
  [][\A c \in Chan :
       /\ \A i \in Frames(ev'.out, c) :
            LET m == Matches(ev'.out[i].bytes, StartOf(c), LenOf(c))
            IN IF m = {} THEN Knowns(ev'.out) = {}
               ELSE \E k \in Knowns(ev'.out) :
                      /\ k > i
                      /\ Knowns(ev'.out) = {k}
                      /\ ev'.out[k].name = NameOf(c)
                      /\ ev'.out[k].at \in m
                      /\ \A j \in m : ev'.out[k].at <= j
                      /\ ev'.out[k].bytes =
                           SubSeq(ev'.out[i].bytes, ev'.out[k].at + 1, ev'.out[k].at + LenOf(c))
       /\ (Frames(ev'.out, "M") = {} /\ Frames(ev'.out, "L") = {}) => Knowns(ev'.out) = {}]_vars

\* C19: with loop() running and millis() advancing, a channel that holds
\* bytes gets its frame: the gap-flush step of that channel prints it and the
\* buffer is empty again.  In the shared-receiver sketch this is so for the
\* channel that does not listen too, and through baud changes and switches.
C19_EventuallyFlushed ==
  \A c \in Chan :
    (ch[c].pos > 0) ~> (ch[c].pos = 0 /\ ev.op = FlushPc(c) /\ Frames(ev.out, c) # {})

\* the frame of M came out while LCD was the listener
C19_Witness ==
  /\ variant = "esp"
  /\ ev.op = "flushM"
  /\ Frames(ev.out, "M") # {}
  /\ listening = {"L"}
  /\ ch["M"].pos = 0

\* C20: the gap test and the time-slice test take now - last modulo the word
\* size, so they agree with the milliseconds that have really passed when
\* the counter has wrapped in between: a frame comes out exactly when
\* FRAME_GAP_MS or more have passed since the last byte, and the listener is
\* switched exactly when more than SWITCH_TIMEOUT_MS have passed since the
\* last switch; nothing is early and nothing due is held back.
C20_WrapSafe ==
  [][/\ \A c \in Chan :
          (pc = FlushPc(c) /\ heard[c] # <<>>)
            => (Frames(ev'.out, c) # {} <=> Lin(now) - Lin(heardAt[c]) >= FRAME_GAP_MS)
     /\ pc = "switch"
          => /\ listening' # listening <=> Lin(now) - Lin(lastSwitchMs) > SWITCH_TIMEOUT_MS
             /\ lastSwitchMs' # lastSwitchMs
                  <=> Lin(now) - Lin(lastSwitchMs) > SWITCH_TIMEOUT_MS]_vars

\* after the wrap the listener was switched, its slice having begun before
\* the wrap; the last byte of M was taken less than FRAME_GAP_MS before the
\* wrap and its frame has come out since
C20_Witness ==
  /\ variant = "esp"
  /\ ev.op = "switch"
  /\ ev.was # listening
  /\ lastSwitchMs = now
  /\ now < UWord \div 2
  /\ heard["M"] = <<>>
  /\ Lin(heardAt["M"]) < 0
  /\ Lin(heardAt["M"]) > 0 - FRAME_GAP_MS

====
